---- MODULE Spec2Model ----
(***************************************************************************)
(* Forward passes of the models of models.py (KLayerGCNConv, DenseGCNGRU,  *)
(* GRU_only, GCNGRU, A3TGCN_2, TGCN_2) as a state machine.                 *)
(*                                                                         *)
(* A tensor is a record [shape, val]: shape is the sequence of its         *)
(* dimensions, val is the symbolic expression that computes it, written    *)
(* in postfix as a sequence of tokens [op, arg].  Leaves are the inputs    *)
(* (a time slice of X, the normalised edges, a hidden state H, a dropout   *)
(* mask); the other tokens are the layers applied.  Learned parameters are *)
(* fixed and identified by the layer that owns them.                       *)
(***************************************************************************)
EXTENDS Integers, Sequences, FiniteSets

\* ------------------------------------------------------------------ bounds
MaxB == 2         \* batch sizes 1..MaxB
MaxN == 2         \* node counts 1..MaxN
MaxT == 3         \* input time steps 1..MaxT
MaxF == 3         \* feature widths (in_channels) 1..MaxF
MaxP == 2         \* forecast horizons (periods) 1..MaxP
MaxK == 3         \* K of a stand-alone KLayerGCNConv, 1..MaxK
MaxCalls == 2     \* forward calls on one instance under SpecSeq

\* ------------------------------------------------------- program constants
GcnOut == 128     \* out_channels of the graph convolutions
DenseGruIn == 130 \* width of DenseGCNGRU's GRU-input buffer and GRU input
Hidden == 64      \* GRU hidden size, TGCN2/A3TGCN2 out_channels
StackK == 3       \* K of the KLayerGCNConv inside DenseGCNGRU and GCNGRU

None == 0         \* Python's None for edge_weight and H
XIds == {0, 1}    \* identities of distinct feature tensors X
EdgeIds == {0, 1} \* identities of distinct edge_index tensors
WeightIds == {None, 1}   \* edge_weight: None or a weight tensor
HIds == {None, 1}        \* H: None or a hidden-state tensor
Masks == {1, 2}   \* distinct random dropout masks

Kinds == {"KLayerGCNConv", "DenseGCNGRU", "GRU_only", "GCNGRU", "A3TGCN_2", "TGCN_2"}

VARIABLES kind, K, in_channels, periods, cached, training, convs,
          pc, err, args, t, gru_in, gru_elems, gru_out, out, trace, cells,
          prev, callsLeft

config == <<kind, K, in_channels, periods, cached>>
vars == <<kind, K, in_channels, periods, cached, training, convs,
          pc, err, args, t, gru_in, gru_elems, gru_out, out, trace, cells,
          prev, callsLeft>>

\* ----------------------------------------------------------------- tensors
Tok(op, arg) == [op |-> op, arg |-> arg]
Tensor(shape, val) == [shape |-> shape, val |-> val]
NoTensor == Tensor(<<>>, <<>>)
ZeroTerm == <<Tok("zeros", <<>>)>>

RECURSIVE Prod(_)
Prod(s) == IF Len(s) = 0 THEN 1 ELSE Head(s) * Prod(Tail(s))

RECURSIVE Flat(_)
Flat(ss) == IF Len(ss) = 0 THEN <<>> ELSE Head(ss) \o Flat(Tail(ss))

LastDim(shape) == shape[Len(shape)]
WithLastDim(shape, w) == [shape EXCEPT ![Len(shape)] = w]

\* the tokens of term whose op is name, as the set of their args
Leaves(term, name) == {term[i].arg : i \in {j \in 1..Len(term) : term[j].op = name}}
Ops(term) == {term[i].op : i \in 1..Len(term)}

\* X[:, :, :, i]: the slice of X at time step i (0-based)
Slice(X, i) == Tensor(SubSeq(X.shape, 1, 3), <<Tok("X", <<X.id, i>>)>>)

\* value.shape can be broadcast to dest.shape (tensor assignment)
Broadcastable(src, dst) ==
    /\ Len(src) <= Len(dst)
    /\ \A i \in 1..Len(src) :
          LET d == dst[Len(dst) - Len(src) + i] IN src[i] = d \/ src[i] = 1

\* t.flatten(start_dim=0, end_dim=1)
Flatten01(shape) == <<shape[1] * shape[2]>> \o SubSeq(shape, 3, Len(shape))

\* t.view(dims) / torch.reshape(t, dims) with one dimension given as -1
ViewOk(shape, dims) ==
    LET known == Prod(SelectSeq(dims, LAMBDA d : d # -1))
    IN known > 0 /\ Prod(shape) % known = 0
ViewShape(shape, dims) ==
    LET known == Prod(SelectSeq(dims, LAMBDA d : d # -1))
    IN [i \in 1..Len(dims) |-> IF dims[i] = -1 THEN Prod(shape) \div known ELSE dims[i]]

\* t.squeeze(dim): drops dimension dim (0-based) when its size is 1
Squeeze(shape, dim) ==
    IF shape[dim + 1] = 1
    THEN SubSeq(shape, 1, dim) \o SubSeq(shape, dim + 2, Len(shape))
    ELSE shape

\* row-major position of a 0-based index in a shape, and back
RECURSIVE Ravel(_, _)
Ravel(shape, idx) ==
    IF Len(shape) = 0 THEN 0
    ELSE idx[1] * Prod(Tail(shape)) + Ravel(Tail(shape), Tail(idx))
RECURSIVE Unravel(_, _)
Unravel(shape, pos) ==
    IF Len(shape) = 0 THEN <<>>
    ELSE <<pos \div Prod(Tail(shape))>> \o Unravel(Tail(shape), pos % Prod(Tail(shape)))

Indices4(shape) ==
    {<<a, b, c, d>> : a \in 0..(shape[1] - 1), b \in 0..(shape[2] - 1),
                      c \in 0..(shape[3] - 1), d \in 0..(shape[4] - 1)}

\* torch.reshape keeps the row-major order of the elements: the element at idx
\* of the result is the element of the source at the same flat position
ReshapeElems(src, dst) == [idx \in Indices4(dst) |-> Unravel(src, Ravel(dst, idx))]
NoElems == [idx \in {} |-> <<>>]

\* ------------------------------------------------------------------ layers
\* GCNConv(in_channels, out_channels, cached): one graph convolution, with its
\* cache of the normalised edges (<<>> is no cache)
NewConv(k, in_w, out_w, c) == [k |-> k, in_w |-> in_w, out_w |-> out_w, cached |-> c, cache |-> <<>>]

\* the normalised edges a convolution uses: with cached=True the ones computed
\* on its first execution, otherwise the ones computed from this call's edges
EdgesUsed(conv, ei, ew) ==
    IF conv.cached /\ conv.cache # <<>> THEN conv.cache ELSE <<Tok("gcn_norm", <<ei, ew>>)>>
CacheAfter(conv, ei, ew) ==
    IF conv.cached /\ conv.cache = <<>> THEN <<Tok("gcn_norm", <<ei, ew>>)>> ELSE conv.cache

\* GCNConv.forward(x, edge_index, edge_weight): [ok, out, conv]
GCNConvForward(conv, x, ei, ew) ==
    [ok   |-> LastDim(x.shape) = conv.in_w,
     out  |-> Tensor(WithLastDim(x.shape, conv.out_w),
                     x.val \o EdgesUsed(conv, ei, ew) \o <<Tok("GCNConv", <<conv.k>>)>>),
     conv |-> [conv EXCEPT !.cache = CacheAfter(conv, ei, ew)]]

\* KLayerGCNConv.__init__: K convolutions, the first in_channels -> out_channels,
\* the others out_channels -> out_channels
KLayerGCNConvInit(k, in_w, out_w, c) ==
    [i \in 1..k |-> NewConv(i - 1, IF i = 1 THEN in_w ELSE out_w, out_w, c)]

\* the convolutions from..Len(cs) applied in sequence, each to the previous output
RECURSIVE Stacked(_, _, _, _, _)
Stacked(cs, from, x, ei, ew) ==
    IF from > Len(cs) THEN [ok |-> TRUE, out |-> x, convs |-> cs]
    ELSE LET r == GCNConvForward(cs[from], x, ei, ew) IN
         IF ~r.ok THEN [ok |-> FALSE, out |-> r.out, convs |-> cs]
         ELSE Stacked([cs EXCEPT ![from] = r.conv], from + 1, r.out, ei, ew)
KLayerStacked(cs, x, ei, ew) == Stacked(cs, 1, x, ei, ew)

\* KLayerGCNConv.forward: the loop returns in its first iteration
KLayerGCNConvForward(cs, x, ei, ew) ==
    IF Len(cs) = 0 THEN [ok |-> TRUE, out |-> NoTensor, convs |-> cs]
    ELSE LET r == GCNConvForward(cs[1], x, ei, ew) IN
         [ok |-> r.ok, out |-> r.out, convs |-> [cs EXCEPT ![1] = r.conv]]

\* F.dropout(h, p, training): the identity in evaluation mode (mask 0), a random
\* mask in training mode
DropoutAlways(h, mask) == Tensor(h.shape, h.val \o <<Tok("dropout", <<1 + mask>>)>>)
Dropout(h, mask) ==
    IF mask = 0 THEN h ELSE Tensor(h.shape, h.val \o <<Tok("dropout", <<mask>>)>>)
DropoutMasks(train) == IF train THEN Masks ELSE {0}

\* the width of the dense block's output: its input concatenated with the
\* convolution's output along the last dimension
CatWidthFixed(xw, hw) == DenseGruIn
CatWidth(xw, hw) == xw + hw

\* DeepGCNLayer(conv, norm=None, act=LeakyReLU, dropout=0.1, block='dense').forward
DeepGCNLayerForward(cs, x, ei, ew, mask) ==
    LET r == KLayerGCNConvForward(cs, x, ei, ew)
        h == Tensor(r.out.shape, r.out.val \o <<Tok("LeakyReLU", <<>>)>>)
        c == Tensor(WithLastDim(x.shape, CatWidth(LastDim(x.shape), LastDim(h.shape))),
                    x.val \o h.val \o <<Tok("cat", <<>>)>>)
    IN [ok |-> r.ok, out |-> Dropout(c, mask), convs |-> r.convs]

\* torch.nn.GRU(input_size, Hidden, 2, batch_first=True) over the sequence steps
\* 1..Len(slots) of an input of shape (B*N, T, W)
GRUForwardReversed(shape, slots, input_size) ==
    [ok  |-> LastDim(shape) = input_size,
     out |-> Tensor(WithLastDim(shape, Hidden),
                    Flat([i \in 1..Len(slots) |-> slots[Len(slots) + 1 - i]])
                      \o <<Tok("GRU", <<Len(slots)>>)>>)]
GRUForward(shape, slots, input_size) ==
    [ok  |-> LastDim(shape) = input_size,
     out |-> Tensor(WithLastDim(shape, Hidden), Flat(slots) \o <<Tok("GRU", <<Len(slots)>>)>>)]

\* gru_out[:, -1, :]: the output at the last sequence step
LastStep(g) == Tensor(<<g.shape[1], g.shape[3]>>, g.val \o <<Tok("step", <<g.shape[2] - 1>>)>>)

\* torch.nn.Linear(in_w, out_w)
Linear(x, in_w, out_w) ==
    [ok  |-> LastDim(x.shape) = in_w,
     out |-> Tensor(WithLastDim(x.shape, out_w), x.val \o <<Tok("fc", <<>>)>>)]

\* the hidden state a recurrent cell starts from
HTerm(H) == IF H = None THEN ZeroTerm ELSE <<Tok("H", <<H>>)>>

\* TGCN2.forward(X, edge_index, edge_weight, H): the new hidden state
TGCN2Forward(conv, x, ei, ew, hterm) ==
    [ok   |-> LastDim(x.shape) = conv.in_w,
     out  |-> Tensor(WithLastDim(x.shape, conv.out_w),
                     x.val \o EdgesUsed(conv, ei, ew) \o hterm \o <<Tok("TGCN2", <<>>)>>),
     conv |-> [conv EXCEPT !.cache = CacheAfter(conv, ei, ew)]]

\* A3TGCN2.forward(X, edge_index): the attention-weighted sum over the periods
\* of the cell's output for each time slice
A3TGCN2Forward(conv, X, ei, p) ==
    LET cell(i) == TGCN2Forward(conv, Slice(X, i - 1), ei, None, ZeroTerm)
    IN [ok  |-> X.shape[3] = conv.in_w,
        out |-> Tensor(<<X.shape[1], X.shape[2], conv.out_w>>,
                       Flat([i \in 1..p |-> cell(i).out.val]) \o <<Tok("attention", <<p>>)>>)]

\* ------------------------------------------------------------ construction
NoArgs == [X |-> [shape |-> <<>>, id |-> 0], ei |-> 0, ew |-> None, H |-> None, training |-> TRUE]
NoBuffer == [shape |-> <<>>, slots |-> <<>>, writes |-> <<>>]
NoCall == [valid |-> FALSE, args |-> NoArgs, out |-> NoTensor, pc |-> "idle"]

\* torch.zeros(B, N, T, W): the GRU-input buffer, one slot per time step
Zeros(shape) == [shape  |-> shape,
                 slots  |-> [i \in 1..shape[3] |-> ZeroTerm],
                 writes |-> [i \in 1..shape[3] |-> 0]]

\* _setup_layers / __init__ of each model: its graph convolutions
SetupLayers(kd, k, in_w, c) ==
    CASE kd = "KLayerGCNConv" -> KLayerGCNConvInit(k, in_w, GcnOut, c)
      [] kd = "DenseGCNGRU"   -> KLayerGCNConvInit(StackK, in_w, GcnOut, c)
      [] kd = "GCNGRU"        -> KLayerGCNConvInit(StackK, in_w, GcnOut, c)
      [] kd = "TGCN_2"        -> <<NewConv(0, in_w, Hidden, c)>>
      [] kd = "A3TGCN_2"      -> <<NewConv(0, in_w, Hidden, FALSE)>>
      [] OTHER                -> <<>>

\* input_size of each model's GRU
GruInputSize(kd, in_w) ==
    CASE kd = "DenseGCNGRU" -> DenseGruIn
      [] kd = "GCNGRU"      -> GcnOut
      [] OTHER              -> in_w

InitWith(calls) ==
    /\ kind \in Kinds
    /\ in_channels \in 1..MaxF
    /\ periods \in (IF kind = "KLayerGCNConv" THEN {1} ELSE 1..MaxP)
    /\ cached \in (IF kind = "A3TGCN_2" THEN {FALSE} ELSE BOOLEAN)
    /\ K \in (IF kind = "KLayerGCNConv" THEN 1..MaxK
              ELSE IF kind \in {"DenseGCNGRU", "GCNGRU"} THEN {StackK} ELSE {0})
    /\ training = TRUE
    /\ convs = SetupLayers(kind, K, in_channels, cached)
    /\ pc = "idle"
    /\ err = ""
    /\ args = NoArgs
    /\ t = 0
    /\ gru_in = NoBuffer
    /\ gru_elems = NoElems
    /\ gru_out = NoTensor
    /\ out = NoTensor
    /\ trace = <<>>
    /\ cells = <<>>
    /\ prev = NoCall
    /\ callsLeft = calls

Init == InitWith(1)
InitSeq == InitWith(MaxCalls) /\ in_channels = 2

\* ----------------------------------------------------------------- actions
Between == pc \in {"idle", "done", "error"}
BDim == args.X.shape[1]
NDim == args.X.shape[2]
TIn == args.X.shape[4]

\* number of iterations of each model's loop over time
DenseSteps(X, p) == X.shape[4]
GcnGruSteps(X, p) == p
TgcnSteps(X, p) == p

\* the time slice an iteration reads and the buffer slot it writes
SliceAtPrev(i) == IF i = 0 THEN 0 ELSE i - 1
SliceAt(i) == i
SlotAtZero(i) == 0
SlotAt(i) == i

\* the hidden state TGCN_2.forward passes to the cell at an iteration: its H argument
CellHidden(H, prevOut) == HTerm(H)

Fail(kindOfError) == pc' = "error" /\ err' = kindOfError

\* model.train() / model.eval() between calls
SetTraining ==
    /\ Between
    /\ callsLeft > 0
    /\ training' = ~training
    /\ UNCHANGED <<config, convs, pc, err, args, t, gru_in, gru_elems, gru_out, out,
                   trace, cells, prev, callsLeft>>

\* a call of forward: binds the arguments and allocates the GRU-input buffer
Call(Bs, Ns, Ts) ==
    /\ Between
    /\ callsLeft > 0
    /\ \E B \in Bs, N \in Ns, T \in (IF kind = "KLayerGCNConv" THEN {1} ELSE Ts),
          x \in XIds, ei \in EdgeIds,
          ew \in (IF kind = "A3TGCN_2" THEN {None} ELSE WeightIds),
          H \in (IF kind = "TGCN_2" THEN HIds ELSE {None}) :
          /\ args' = [X |-> [shape |-> <<B, N, in_channels, T>>, id |-> x],
                      ei |-> ei, ew |-> ew, H |-> H, training |-> training]
          /\ gru_in' = IF kind = "DenseGCNGRU" THEN Zeros(<<B, N, T, DenseGruIn>>)
                       ELSE IF kind = "GCNGRU" THEN Zeros(<<B, N, periods, GcnOut>>)
                       ELSE NoBuffer
    /\ prev' = IF pc = "idle" THEN NoCall
               ELSE [valid |-> TRUE, args |-> args, out |-> out, pc |-> pc]
    /\ callsLeft' = callsLeft - 1
    /\ pc' = IF kind \in {"DenseGCNGRU", "GCNGRU", "TGCN_2"} THEN "loop" ELSE "body"
    /\ err' = ""
    /\ t' = 0
    /\ gru_elems' = NoElems
    /\ gru_out' = NoTensor
    /\ out' = NoTensor
    /\ trace' = <<>>
    /\ cells' = <<>>
    /\ UNCHANGED <<config, training, convs>>

\* gru_in[:, :, slot, :] = value
WriteSlot(buf, slot, value) ==
    [buf EXCEPT !.slots[slot + 1] = value.val, !.writes[slot + 1] = @ + 1]
SlotShape(buf) == <<buf.shape[1], buf.shape[2], buf.shape[4]>>

\* KLayerGCNConv.forward called on its own, on one (B, N, F) tensor
KForward ==
    /\ kind = "KLayerGCNConv" /\ pc = "body"
    /\ LET r == KLayerGCNConvForward(convs, Slice(args.X, 0), args.ei, args.ew) IN
          /\ convs' = r.convs
          /\ out' = IF r.ok THEN r.out ELSE NoTensor
          /\ IF r.ok THEN pc' = "done" /\ err' = err ELSE Fail("shape")
    /\ UNCHANGED <<config, training, args, t, gru_in, gru_elems, gru_out, trace, cells,
                   prev, callsLeft>>

\* one iteration of DenseGCNGRU.forward's loop over the time steps of X
DenseStep ==
    /\ kind = "DenseGCNGRU" /\ pc = "loop"
    /\ \E mask \in DropoutMasks(training) :
          LET r == DeepGCNLayerForward(convs, Slice(args.X, SliceAt(t)), args.ei, args.ew, mask)
              fits == r.ok /\ Broadcastable(r.out.shape, SlotShape(gru_in))
          IN /\ convs' = r.convs
             /\ gru_in' = IF fits THEN WriteSlot(gru_in, SlotAt(t), r.out) ELSE gru_in
             /\ t' = IF fits THEN t + 1 ELSE t
             /\ IF ~fits THEN Fail("shape")
                ELSE /\ pc' = IF t + 1 < DenseSteps(args.X, periods) THEN "loop" ELSE "gru"
                     /\ err' = err
    /\ trace' = Append(trace, [ev |-> "gcn", t |-> SliceAt(t)])
    /\ UNCHANGED <<config, training, args, gru_elems, gru_out, out, cells, prev, callsLeft>>

\* one iteration of GCNGRU.forward's loop over range(periods)
GcnGruStep ==
    /\ kind = "GCNGRU" /\ pc = "loop"
    /\ IF SliceAt(t) >= TIn
       THEN /\ Fail("index")
            /\ UNCHANGED <<convs, gru_in, t, trace>>
       ELSE LET r == KLayerGCNConvForward(convs, Slice(args.X, SliceAt(t)), args.ei, args.ew)
                fits == r.ok /\ Broadcastable(r.out.shape, SlotShape(gru_in))
            IN /\ convs' = r.convs
               /\ gru_in' = IF fits THEN WriteSlot(gru_in, SlotAt(t), r.out) ELSE gru_in
               /\ t' = IF fits THEN t + 1 ELSE t
               /\ trace' = Append(trace, [ev |-> "gcn", t |-> SliceAt(t)])
               /\ IF ~fits THEN Fail("shape")
                  ELSE /\ pc' = IF t + 1 < GcnGruSteps(args.X, periods) THEN "loop" ELSE "gru"
                       /\ err' = err
    /\ UNCHANGED <<config, training, args, gru_elems, gru_out, out, cells, prev, callsLeft>>

\* one iteration of TGCN_2.forward's loop over range(periods)
TgcnStep ==
    /\ kind = "TGCN_2" /\ pc = "loop"
    /\ IF SliceAt(t) >= TIn
       THEN /\ Fail("index")
            /\ UNCHANGED <<convs, out, t, cells>>
       ELSE LET h == CellHidden(args.H, out)
                r == TGCN2Forward(convs[1], Slice(args.X, SliceAt(t)), args.ei, args.ew, h)
            IN /\ convs' = [convs EXCEPT ![1] = r.conv]
               /\ out' = r.out
               /\ cells' = Append(cells, [p |-> t, hin |-> h, hout |-> r.out.val])
               /\ t' = t + 1
               /\ pc' = IF t + 1 < TgcnSteps(args.X, periods) THEN "loop" ELSE "fc"
               /\ err' = err
    /\ UNCHANGED <<config, training, args, gru_in, gru_elems, gru_out, trace, prev, callsLeft>>

\* the sequence GRU_only.forward feeds its GRU: step i holds the features that
\* the reshape puts at position i; edge_index and edge_weight are placeholders
GruOnlySeqWithEdges(X, ei, ew, n) ==
    [i \in 1..n |-> <<Tok("Xreshaped", <<X.id, i - 1>>), Tok("gcn_norm", <<ei, ew>>)>>]
GruOnlySeq(X, ei, ew, n) == [i \in 1..n |-> <<Tok("Xreshaped", <<X.id, i - 1>>)>>]

\* GRU_only.forward: torch.reshape(X, (B, N, periods, -1))
Reshape ==
    /\ kind = "GRU_only" /\ pc = "body"
    /\ LET dims == <<BDim, NDim, periods, -1>> IN
       IF ~ViewOk(args.X.shape, dims)
       THEN /\ Fail("shape")
            /\ UNCHANGED <<gru_in, gru_elems>>
       ELSE LET dst == ViewShape(args.X.shape, dims) IN
            /\ gru_in' = [shape  |-> dst,
                          slots  |-> GruOnlySeq(args.X, args.ei, args.ew, dst[3]),
                          writes |-> [i \in 1..dst[3] |-> 0]]
            /\ gru_elems' = ReshapeElems(args.X.shape, dst)
            /\ pc' = "gru"
            /\ err' = err
    /\ UNCHANGED <<config, training, convs, args, t, gru_out, out, trace, cells, prev, callsLeft>>

\* A3TGCN_2.forward: h = self.tgnn(x, edge_index)
A3Step ==
    /\ kind = "A3TGCN_2" /\ pc = "body"
    /\ IF TIn < periods
       THEN Fail("index") /\ out' = out
       ELSE LET r == A3TGCN2Forward(convs[1], args.X, args.ei, periods) IN
            /\ out' = IF r.ok THEN r.out ELSE out
            /\ IF r.ok THEN pc' = "fc" /\ err' = err ELSE Fail("shape")
    /\ UNCHANGED <<config, training, convs, args, t, gru_in, gru_elems, gru_out, trace, cells,
                   prev, callsLeft>>

\* gru_in.flatten(0, 1); gru_out, _ = self.gru(gru_in)
Gru ==
    /\ pc = "gru"
    /\ LET r == GRUForward(Flatten01(gru_in.shape), gru_in.slots, GruInputSize(kind, in_channels)) IN
          /\ gru_out' = IF r.ok THEN r.out ELSE gru_out
          /\ trace' = IF r.ok THEN Append(trace, [ev |-> "gru", t |-> Len(gru_in.slots)]) ELSE trace
          /\ IF r.ok THEN pc' = "fc" /\ err' = err ELSE Fail("shape")
    /\ UNCHANGED <<config, training, convs, args, t, gru_in, gru_elems, out, cells, prev, callsLeft>>

\* the linear projection and the return: self.fc(gru_out[:, -1, :]) viewed as
\* (B, N, periods, -1) and squeezed, or self.fc(out) for the cell models
Fc ==
    /\ pc = "fc"
    /\ IF kind \in {"TGCN_2", "A3TGCN_2"}
       THEN LET l == Linear(out, Hidden, periods) IN
            /\ out' = IF l.ok THEN l.out ELSE out
            /\ trace' = trace
            /\ IF l.ok THEN pc' = "done" /\ err' = err ELSE Fail("shape")
       ELSE LET last == LastStep(gru_out)
                l == Linear(last, Hidden, periods)
                dims == <<BDim, NDim, periods, -1>>
                fits == l.ok /\ ViewOk(l.out.shape, dims)
            IN /\ out' = IF fits THEN Tensor(Squeeze(ViewShape(l.out.shape, dims), 3), l.out.val)
                         ELSE out
               /\ trace' = IF fits THEN Append(trace, [ev |-> "fc", t |-> gru_out.shape[2] - 1])
                           ELSE trace
               /\ IF fits THEN pc' = "done" /\ err' = err ELSE Fail("shape")
    /\ UNCHANGED <<config, training, convs, args, t, gru_in, gru_elems, gru_out, cells, prev, callsLeft>>

Steps == KForward \/ DenseStep \/ GcnGruStep \/ TgcnStep \/ Reshape \/ A3Step \/ Gru \/ Fc

Next == SetTraining \/ Call(1..MaxB, 1..MaxN, 1..MaxT) \/ Steps
Spec == Init /\ [][Next]_vars

\* sequences of calls on one instance, each on a (1, 1, 2, periods) tensor
NextSeq == SetTraining \/ Call({1}, {1}, {periods}) \/ Steps
SpecSeq == InitSeq /\ [][NextSeq]_vars

\* -------------------------------------------------------------- properties
Returned == pc \in {"done", "error"}
AfterLoop == pc \in {"gru", "fc", "done"}
PrevSame == prev.valid /\ prev.pc = "done"
\* the time steps of the slices of X a term reads, in the order it reads them
XSteps(term) ==
    LET xs == SelectSeq(term, LAMBDA tok : tok.op = "X") IN [i \in 1..Len(xs) |-> xs[i].arg[2]]
SlicesRead(term) == {a[2] : a \in Leaves(term, "X")}
GcnEvents == SelectSeq(trace, LAMBDA e : e.ev = "gcn")
EdgesOfCall == <<Tok("gcn_norm", <<args.ei, args.ew>>)>>
ConvOf(i, k) == <<Tok("X", <<args.X.id, i>>)>> \o EdgesOfCall \o <<Tok("GCNConv", <<k>>)>>

C7_AllKConvsStacked ==
    (kind = "KLayerGCNConv" /\ pc = "done") =>
        out = Tensor(<<BDim, NDim, GcnOut>>,
                     <<Tok("X", <<args.X.id, 0>>)>>
                       \o Flat([i \in 1..K |-> EdgesOfCall \o <<Tok("GCNConv", <<i - 1>>)>>]))

\* C2: DenseGCNGRU.forward applies the dense GCN block once per input time step
\* t = 0..T_in-1 to the slice at t, only then runs the GRU over the T_in per-step
\* outputs in increasing time order, applies the linear layer only to the GRU
\* output at step T_in-1, and returns a tensor of shape (B, N, periods).
DenseEvent(i) ==
    IF i <= TIn THEN [ev |-> "gcn", t |-> i - 1]
    ELSE IF i = TIn + 1 THEN [ev |-> "gru", t |-> TIn]
    ELSE [ev |-> "fc", t |-> TIn - 1]
C2_DenseStageOrder ==
    (kind = "DenseGCNGRU" /\ pc # "idle") =>
        /\ Len(trace) <= TIn + 2
        /\ \A i \in 1..Len(trace) : trace[i] = DenseEvent(i)
        /\ pc = "gru" => Len(trace) = TIn
        /\ pc \in {"fc", "done"} =>
              /\ gru_out.shape = <<BDim * NDim, TIn, Hidden>>
              /\ SlicesRead(gru_out.val) = 0..(TIn - 1)
              /\ \A i, j \in 1..Len(XSteps(gru_out.val)) :
                    i < j => XSteps(gru_out.val)[i] <= XSteps(gru_out.val)[j]
        /\ pc = "done" =>
              /\ Len(trace) = TIn + 2
              /\ Leaves(out.val, "step") = {<<TIn - 1>>}
              /\ out.shape = <<BDim, NDim, periods>>
C2_Witness ==
    /\ kind = "DenseGCNGRU" /\ pc = "done"
    /\ BDim = MaxB /\ NDim = MaxN /\ TIn = MaxT /\ periods # TIn

\* C3 as stated: for every T_in and periods, DenseGCNGRU.forward and
\* GCNGRU.forward both apply their spatial stage to every time slice
\* 0..T_in-1, feed the GRU a sequence of length T_in and project the last GRU
\* step to a (B, N, periods) output.
C3_SameStagesForAnyTIn ==
    (kind \in {"DenseGCNGRU", "GCNGRU"} /\ pc = "done") =>
        /\ {e.t : e \in {GcnEvents[i] : i \in 1..Len(GcnEvents)}} = 0..(TIn - 1)
        /\ Len(GcnEvents) = TIn
        /\ gru_out.shape[2] = TIn
        /\ out.shape = <<BDim, NDim, periods>>

\* C3 amended: the two agree on those stages when T_in = periods; GCNGRU.forward
\* loops over range(periods), so with T_in > periods it reads only the first
\* periods slices and its GRU sequence has length periods, and with
\* T_in < periods it fails on the slice at index T_in.
C3_SameStagesWhenTInIsPeriods ==
    /\ (kind \in {"DenseGCNGRU", "GCNGRU"} /\ pc = "done" /\ TIn = periods) =>
          /\ {e.t : e \in {GcnEvents[i] : i \in 1..Len(GcnEvents)}} = 0..(TIn - 1)
          /\ Len(GcnEvents) = TIn
          /\ gru_out.shape[2] = TIn
          /\ trace[Len(trace) - 1] = [ev |-> "gru", t |-> TIn]
          /\ trace[Len(trace)] = [ev |-> "fc", t |-> TIn - 1]
          /\ Leaves(out.val, "step") = {<<TIn - 1>>}
          /\ out.shape = <<BDim, NDim, periods>>
    /\ (kind = "GCNGRU" /\ Returned) =>
          /\ pc = "done" <=> TIn >= periods
          /\ pc = "done" =>
                /\ [i \in 1..Len(GcnEvents) |-> GcnEvents[i].t] = [i \in 1..periods |-> i - 1]
                /\ gru_out.shape[2] = periods
                /\ out.shape = <<BDim, NDim, periods>>
          /\ pc = "error" => err = "index" /\ t = TIn
C3_Witness == kind = "GCNGRU" /\ pc = "done" /\ TIn = periods /\ periods = MaxP /\ periods > 1

\* C4: TGCN_2.forward applies the recurrent cell to the slices p = 0..periods-1
\* in order, the hidden state the cell produces for slice p is the hidden state
\* it receives for slice p+1, and the forecast depends on every one of the
\* periods slices of X.
C4_HiddenStateChained ==
    (kind = "TGCN_2" /\ pc # "idle") =>
        /\ \A i \in 1..Len(cells) : cells[i].p = i - 1
        /\ \A i \in 2..Len(cells) : cells[i].hin = cells[i - 1].hout
        /\ pc = "done" => SlicesRead(out.val) = 0..(periods - 1)

\* C5: GRU_only.forward ignores the graph: two calls that differ only in
\* edge_index and/or edge_weight return the same output, and neither argument
\* is read.
C5_EdgesIgnored ==
    (kind = "GRU_only" /\ pc = "done") =>
        /\ Leaves(out.val, "gcn_norm") = {}
        /\ convs = <<>>
        /\ (PrevSame /\ prev.args.X = args.X) => out = prev.out
C5_Witness ==
    /\ kind = "GRU_only" /\ pc = "done" /\ PrevSame /\ prev.args.X = args.X
    /\ prev.args.ei # args.ei /\ prev.args.ew # args.ew /\ None \in {prev.args.ew, args.ew}

\* C6 as stated: for every constructor setting, the result of a forward call
\* does not depend on any earlier call and a call leaves no state on the
\* instance.
NoCachedState == \A i \in 1..Len(convs) : convs[i].cache = <<>>
OutFromArgsAlone ==
    /\ Leaves(out.val, "gcn_norm") \subseteq {<<args.ei, args.ew>>}
    /\ "dropout" \notin Ops(out.val)
    /\ (PrevSame /\ prev.args = args) => out = prev.out
C6_ForwardIsPure ==
    /\ NoCachedState
    /\ pc = "done" => OutFromArgsAlone

\* C6 amended: with cached=False a call leaves no state on the instance, and
\* with cached=False in evaluation mode the result of a call depends on its
\* arguments alone; cached=True stores the normalised edges of the first call
\* and training mode draws a dropout mask per call.
C6_PureWhenUncachedInEval ==
    /\ ~cached => NoCachedState
    /\ (~cached /\ ~args.training /\ pc = "done") => OutFromArgsAlone
C6_Witness ==
    /\ kind = "DenseGCNGRU" /\ ~cached /\ ~args.training /\ pc = "done"
    /\ PrevSame /\ prev.args = args /\ out = prev.out /\ callsLeft = 0

\* C8: GRU_only.forward turns X of shape (B, N, F, T), T = periods, into a
\* sequence of shape (B, N, T, F) with gru_in[b, n, t, f] = X[b, n, f, t].
C8_ReshapeTransposes ==
    (kind = "GRU_only" /\ AfterLoop /\ TIn = periods) =>
        /\ gru_in.shape = <<BDim, NDim, TIn, in_channels>>
        /\ \A idx \in DOMAIN gru_elems : gru_elems[idx] = <<idx[1], idx[2], idx[4], idx[3]>>

\* C9: in DenseGCNGRU.forward and GCNGRU.forward, when the GRU is invoked every
\* slot of the zero-initialised buffer has been overwritten exactly once and
\* slot t holds the spatial-stage output computed from the slice at t alone.
C9_BufferFullyWritten ==
    (kind \in {"DenseGCNGRU", "GCNGRU"} /\ AfterLoop) =>
        /\ Len(gru_in.slots) = gru_in.shape[3]
        /\ Len(gru_in.slots) >= 1
        /\ \A i \in 1..Len(gru_in.slots) :
              /\ gru_in.writes[i] = 1
              /\ gru_in.slots[i] # ZeroTerm
              /\ Leaves(gru_in.slots[i], "X") = {<<args.X.id, i - 1>>}
              /\ "GCNConv" \in Ops(gru_in.slots[i])
C9_Witness ==
    /\ kind = "GCNGRU" /\ pc = "gru" /\ TIn > periods /\ periods > 1
    /\ gru_in.writes = [i \in 1..periods |-> 1]

\* C10: DenseGCNGRU.forward completes without a shape error exactly when
\* in_channels is 2: the dense block's output has width in_channels + 128 and
\* the buffer has width 130; for any other in_channels the write of the
\* per-step output into the buffer fails.
C10_DenseNeedsTwoChannels ==
    (kind = "DenseGCNGRU" /\ pc # "idle") =>
        /\ gru_in.shape[4] = DenseGruIn
        /\ in_channels + GcnOut = DenseGruIn => pc # "error"
        /\ in_channels + GcnOut # DenseGruIn =>
              /\ pc \in {"loop", "error"}
              /\ t = 0
              /\ gru_in.writes = [i \in 1..TIn |-> 0]
        /\ pc = "error" => err = "shape" /\ trace = <<[ev |-> "gcn", t |-> 0]>>
        /\ AfterLoop => in_channels = 2
C10_Witness ==
    /\ kind = "DenseGCNGRU" /\ pc = "error" /\ err = "shape" /\ in_channels = MaxF /\ TIn > 1

====
